---- MODULE Spec2Model ----
(***************************************************************************)
(* Model of the foodgram backend (backend/recipes): the tables Ingredient, *)
(* Recipe, RecipeIngredient, ShoppingCart and Favorite, the request        *)
(* handlers that write them, and the shopping-list download that           *)
(* aggregates them.                                                        *)
(*                                                                         *)
(* A table is the bag of its rows without the primary key; the two tables  *)
(* that are referenced by foreign keys (Ingredient, Recipe) keep the id.   *)
(* Under Spec every handler runs to completion before the next one starts. *)
(* Under SpecConc the download runs statement by statement among the       *)
(* other handlers, under SpecEdit the recipe update does; 'inflight' holds *)
(* the requests that have begun and not ended.                             *)
(***************************************************************************)
EXTENDS Bags, FiniteSets, Integers, Sequences, TLC

VARIABLES Ingredient, Recipe, RecipeIngredient, ShoppingCart, Favorite, seq,
          response, inflight

vars == <<Ingredient, Recipe, RecipeIngredient, ShoppingCart, Favorite, seq,
          response, inflight>>

tables == <<Ingredient, Recipe, RecipeIngredient, ShoppingCart, Favorite, seq>>

----------------------------------------------------------------------------
(* Bounds of the model.                                                    *)

MaxUsers == 2
MaxRecipes == 2
MaxIngredients == 2
MaxAmount == 2
MaxItems == 2
MaxInterleaved == 2
MaxTags == 2

Users == 1..MaxUsers
RecipeIds == 1..MaxRecipes
IngredientIds == 1..MaxIngredients

(* The (name, measurement_unit) pairs that catalog requests may carry.     *)
CatalogItems ==
    {[name |-> "Flour", measurement_unit |-> "g"],
     [name |-> "Sugar", measurement_unit |-> "g"],
     [name |-> "Sugar", measurement_unit |-> "tsp"]}

(* Amounts a request may carry: zero and the positive ones.                *)
RequestAmounts == 0..MaxAmount

(* An item of the 'ingredients' list of a recipe request.                  *)
Items == [id : IngredientIds, amount : RequestAmounts]

ItemLists == UNION {[1..n -> Items] : n \in 0..MaxItems}

(* The data of a recipe request. 'partial' tells PATCH from PUT and POST;  *)
(* the key 'ingredients' may be missing. The other keys (tags, image,      *)
(* name, text, cooking_time) are taken as present and valid. A request     *)
(* that carries 'ingredients' is handled alike with and without 'partial', *)
(* so it is listed once.                                                   *)
RequestData ==
    {[partial |-> FALSE, ingredients |-> l] : l \in ItemLists}
    \cup {[partial |-> p] : p \in BOOLEAN}

(* The Tag table: the tags are loaded by the admin before the requests     *)
(* begin, and no request of the model writes them.                         *)
TagPks == 1..MaxTags

TagLists == UNION {[1..n -> TagPks] : n \in 0..MaxTags}

(* Requests that carry the key 'tags', with amounts below zero too. A      *)
(* request without the key 'tags' stands for one whose tags are valid.     *)
WriteAmounts == -1..1

WriteItems == [id : IngredientIds, amount : WriteAmounts]

WriteItemLists == UNION {[1..n -> WriteItems] : n \in 0..MaxItems}

WriteRequestData ==
    {[partial |-> FALSE, ingredients |-> l, tags |-> t] :
        l \in WriteItemLists, t \in TagLists}
    \cup {[partial |-> TRUE, tags |-> t] : t \in TagLists}
    \cup {[partial |-> TRUE, ingredients |-> l] : l \in WriteItemLists}

----------------------------------------------------------------------------
(* Helpers on tables.                                                      *)

RECURSIVE SumOver(_, _)
SumOver(f, S) ==
    IF S = {} THEN 0
    ELSE LET x == CHOOSE y \in S : TRUE
         IN f[x] + SumOver(f, S \ {x})

(* The number of stored rows among the given rows of a table.              *)
Count(table, rows) == SumOver(table, rows \cap DOMAIN table)

(* QuerySet.delete(): the table without the given rows.                    *)
Delete(table, rows) == [row \in DOMAIN table \ rows |-> table[row]]

Insert(table, row) == table (+) SetToBag({row})

IngredientPks == {i.id : i \in Ingredient}

RecipePks == {r.id : r \in Recipe}

(* A response: the status code, the message of an error body, and for the *)
(* shopping list the rows of the query and the text of the body. Strings   *)
(* are given in Latin letters; 'content' is the text as the sequence of    *)
(* its lines, each of which the code ends with a newline, and 'body' is    *)
(* the text itself. The response to an update that succeeded keeps the     *)
(* request it answers (pk, data).                                          *)
Resp(op, status) ==
    [op |-> op, status |-> status, user |-> 0, error |-> "",
     ingredients |-> <<>>, content |-> <<>>, body |-> "",
     pk |-> 0, data |-> [partial |-> TRUE]]

ErrorResp(op, status, message) ==
    [Resp(op, status) EXCEPT !.error = message]

(* The requests in flight: a download that has run its emptiness check,    *)
(* an update that has deleted the old links. 'steps', 'seen', 'cart' and   *)
(* 'before' are history: the number of steps other requests have taken     *)
(* since the download began, the outcomes the download would have had in   *)
(* each state since then, the cart recipes of its caller when it began,    *)
(* and the links the update has deleted.                                   *)
Idle ==
    [stage |-> "idle", user |-> 0, steps |-> 0, seen |-> {}, cart |-> {},
     pk |-> 0, data |-> [partial |-> TRUE], before |-> EmptyBag]

NoCalls == [download |-> Idle, update |-> Idle]

----------------------------------------------------------------------------
Init ==
    /\ Ingredient = {}
    /\ Recipe = {}
    /\ RecipeIngredient = EmptyBag
    /\ ShoppingCart = EmptyBag
    /\ Favorite = EmptyBag
    /\ seq = [Ingredient |-> 1, Recipe |-> 1]
    /\ response = Resp("none", 0)
    /\ inflight = NoCalls

----------------------------------------------------------------------------
(* Ingredient: name is unique, and (name, measurement_unit) is unique.     *)

IngredientUniqueViolation(name, unit) ==
    \/ \E i \in Ingredient : i.name = name
    \/ \E i \in Ingredient : i.name = name /\ i.measurement_unit = unit

(* IngredientAdmin: the add form of the admin site.                        *)
IngredientAdminAdd(name, unit) ==
    /\ IF IngredientUniqueViolation(name, unit)
       THEN /\ response' = Resp("ingredient_add", 400)
            /\ UNCHANGED tables
       ELSE /\ seq.Ingredient <= MaxIngredients
            /\ Ingredient' = Ingredient \cup
                  {[id |-> seq.Ingredient, name |-> name,
                    measurement_unit |-> unit]}
            /\ seq' = [seq EXCEPT !.Ingredient = @ + 1]
            /\ response' = Resp("ingredient_add", 302)
            /\ UNCHANGED <<Recipe, RecipeIngredient, ShoppingCart, Favorite>>

(* The items of data/ingredients.json: any list of catalog items, with or  *)
(* without repeated items.                                                 *)
JsonFiles == UNION {[1..n -> CatalogItems] : n \in 0..MaxItems}

(* Variant: the Ingredient table without its unique constraints.           *)
IngredientRowAcceptedNoUnique(catalog, item) == TRUE

(* The constraints of the Ingredient table, checked by the database on     *)
(* insert: name is unique, and unique_ingredient.                          *)
IngredientRowAccepted(catalog, item) ==
    /\ ~\E i \in catalog : i.name = item.name
    /\ ~\E i \in catalog :
          /\ i.name = item.name
          /\ i.measurement_unit = item.measurement_unit

(* Ingredient.objects.bulk_create: one INSERT of all rows; it stores all   *)
(* of them or, on an IntegrityError, none. 'next' is the next free id.     *)
RECURSIVE ingredient_bulk_create(_, _, _)
ingredient_bulk_create(catalog, next, items) ==
    IF items = <<>> THEN [ok |-> TRUE, table |-> catalog, next |-> next]
    ELSE IF ~IngredientRowAccepted(catalog, Head(items))
         THEN [ok |-> FALSE, table |-> catalog, next |-> next]
    ELSE LET rest == ingredient_bulk_create(
                        catalog \cup
                           {[id |-> next, name |-> Head(items).name,
                             measurement_unit |->
                                Head(items).measurement_unit]},
                        next + 1, Tail(items))
         IN  IF rest.ok THEN rest
             ELSE [ok |-> FALSE, table |-> catalog, next |-> next]

(* The management command load_ingredients: handle and load_json. The      *)
(* status is that of the process, 1 when the IntegrityError ends it.       *)
LoadIngredients(data) ==
    LET made == ingredient_bulk_create(Ingredient, seq.Ingredient, data)
    IN  /\ made.next <= MaxIngredients + 1
        /\ Ingredient' = made.table
        /\ seq' = [seq EXCEPT !.Ingredient = made.next]
        /\ response' = Resp("load_ingredients", IF made.ok THEN 0 ELSE 1)
        /\ UNCHANGED <<Recipe, RecipeIngredient, ShoppingCart, Favorite>>

(* get_or_create, item by item: an item whose (name, measurement_unit) is  *)
(* stored is left alone, another one is created. The first error ends the  *)
(* loop, and the rows created before it stay: the action of the admin      *)
(* site runs in no transaction.                                            *)
RECURSIVE get_or_create_each(_, _, _)
get_or_create_each(catalog, next, items) ==
    IF items = <<>> THEN [ok |-> TRUE, table |-> catalog, next |-> next]
    ELSE LET item == Head(items)
             found == {i \in catalog :
                         /\ i.name = item.name
                         /\ i.measurement_unit = item.measurement_unit}
         IN  IF Cardinality(found) = 1
             THEN get_or_create_each(catalog, next, Tail(items))
             ELSE IF Cardinality(found) > 1
                     \/ ~IngredientRowAccepted(catalog, item)
             THEN [ok |-> FALSE, table |-> catalog, next |-> next]
             ELSE get_or_create_each(
                      catalog \cup
                         {[id |-> next, name |-> item.name,
                           measurement_unit |-> item.measurement_unit]},
                      next + 1, Tail(items))

(* IngredientAdmin.import_from_json.                                       *)
ImportFromJson(data) ==
    LET made == get_or_create_each(Ingredient, seq.Ingredient, data)
    IN  /\ made.next <= MaxIngredients + 1
        /\ Ingredient' = made.table
        /\ seq' = [seq EXCEPT !.Ingredient = made.next]
        /\ response' = Resp("import_from_json",
                            IF made.ok THEN 302 ELSE 500)
        /\ UNCHANGED <<Recipe, RecipeIngredient, ShoppingCart, Favorite>>

----------------------------------------------------------------------------
(* RecipeWriteSerializer.                                                  *)

(* is_valid: the field-level validation. A required key is missing only   *)
(* in a partial update; an item names an existing Ingredient and its       *)
(* amount passes the validators of RecipeIngredient.amount.                *)
amount_field_valid(amount) == amount >= 0

is_valid(data) ==
    /\ data.partial \/ "ingredients" \in DOMAIN data
    /\ "ingredients" \in DOMAIN data =>
          \A k \in DOMAIN data.ingredients :
              /\ data.ingredients[k].id \in IngredientPks
              /\ amount_field_valid(data.ingredients[k].amount)
    /\ "tags" \in DOMAIN data =>
          \A k \in DOMAIN data.tags : data.tags[k] \in TagPks

(* Variant: the amount check lets zero through.                            *)
validate_ingredients_data_zero(ingredients_data) ==
    IF Len(ingredients_data) = 0
    THEN "Dobav'te hotya by odin ingredient"
    ELSE IF Cardinality({ingredients_data[k].id :
                            k \in DOMAIN ingredients_data})
            # Len(ingredients_data)
    THEN "Ingredienty ne dolzhny povtoryat'sya"
    ELSE IF \E k \in DOMAIN ingredients_data :
               ingredients_data[k].amount < 0
    THEN "Kolichestvo dolzhno byt' bol'she nulya"
    ELSE ""

(* The message of the ValidationError raised, "" when none is raised.      *)
validate_ingredients_data(ingredients_data) ==
    IF Len(ingredients_data) = 0
    THEN "Dobav'te hotya by odin ingredient"
    ELSE IF Cardinality({ingredients_data[k].id :
                            k \in DOMAIN ingredients_data})
            # Len(ingredients_data)
    THEN "Ingredienty ne dolzhny povtoryat'sya"
    ELSE IF \E k \in DOMAIN ingredients_data :
               ingredients_data[k].amount <= 0
    THEN "Kolichestvo dolzhno byt' bol'she nulya"
    ELSE ""

(* Variant: the check of the tags lets an empty list through.              *)
validate_tags_data_allows_none(tags_data) ==
    IF Cardinality({tags_data[k] : k \in DOMAIN tags_data}) # Len(tags_data)
    THEN "Tegi dolzhny byt' unikal'nymi"
    ELSE ""

(* _validate_tags_data: the message of the ValidationError, "" when none   *)
(* is raised.                                                              *)
validate_tags_data(tags_data) ==
    IF Len(tags_data) = 0
    THEN "Dobav'te hotya by odin teg"
    ELSE IF Cardinality({tags_data[k] : k \in DOMAIN tags_data})
            # Len(tags_data)
    THEN "Tegi dolzhny byt' unikal'nymi"
    ELSE ""

(* The checks that create and update run before their first write: the     *)
(* ingredients when the data has them, then the tags when it has them.     *)
validate_data(data) ==
    IF /\ "ingredients" \in DOMAIN data
       /\ validate_ingredients_data(data.ingredients) # ""
    THEN validate_ingredients_data(data.ingredients)
    ELSE IF "tags" \in DOMAIN data
    THEN validate_tags_data(data.tags)
    ELSE ""

(* The rows _create_recipe_ingredients builds, in the order of the list.   *)
recipe_ingredients(recipe, ingredients_data) ==
    [k \in DOMAIN ingredients_data |->
        [recipe |-> recipe, ingredient |-> ingredients_data[k].id,
         amount |-> ingredients_data[k].amount]]

(* Variant: the table without unique_ingredient_in_recipe.                 *)
RowAcceptedNoUnique(table, recipePks, row) ==
    /\ row.recipe \in recipePks
    /\ row.ingredient \in IngredientPks
    /\ row.amount >= 0

(* The constraints of the RecipeIngredient table, checked by the database  *)
(* on insert: both foreign keys, amount >= 0, unique_ingredient_in_recipe. *)
RowAccepted(table, recipePks, row) ==
    /\ row.recipe \in recipePks
    /\ row.ingredient \in IngredientPks
    /\ row.amount >= 0
    /\ ~\E old \in DOMAIN table :
          old.recipe = row.recipe /\ old.ingredient = row.ingredient

(* bulk_create: one INSERT of all rows; it stores all of them or, on an    *)
(* IntegrityError, none.                                                   *)
RECURSIVE bulk_create(_, _, _)
bulk_create(table, recipePks, rows) ==
    IF rows = <<>> THEN [ok |-> TRUE, table |-> table]
    ELSE IF ~RowAccepted(table, recipePks, Head(rows))
         THEN [ok |-> FALSE, table |-> table]
    ELSE LET rest == bulk_create(Insert(table, Head(rows)), recipePks,
                                 Tail(rows))
         IN  IF rest.ok THEN rest ELSE [ok |-> FALSE, table |-> table]

create_recipe_ingredients(table, recipePks, recipe, ingredients_data) ==
    bulk_create(table, recipePks, recipe_ingredients(recipe, ingredients_data))

(* RecipeViewSet.create with RecipeWriteSerializer.create. The author of   *)
(* a recipe and its simple fields are not part of the model.               *)
RecipeCreate(data) ==
    IF ~is_valid(data)
    THEN /\ response' = ErrorResp("recipe_create", 400, "invalid")
         /\ UNCHANGED tables
    ELSE IF validate_data(data) # ""
    THEN /\ response' = ErrorResp("recipe_create", 400, validate_data(data))
         /\ UNCHANGED tables
    ELSE LET pk == seq.Recipe
             recipe == [id |-> pk]
             made == create_recipe_ingredients(
                        RecipeIngredient, RecipePks \cup {pk},
                        pk, data.ingredients)
         IN  /\ pk <= MaxRecipes
             /\ Recipe' = Recipe \cup {recipe}
             /\ seq' = [seq EXCEPT !.Recipe = @ + 1]
             /\ RecipeIngredient' = made.table
             /\ response' = Resp("recipe_create",
                                 IF made.ok THEN 201 ELSE 500)
             /\ UNCHANGED <<Ingredient, ShoppingCart, Favorite>>

(* Variant: the update keeps the old links.                                *)
delete_recipe_links_none(table, pk) == table

(* RecipeIngredient.objects.filter(recipe=instance).delete()               *)
delete_recipe_links(table, pk) ==
    Delete(table, {row \in DOMAIN table : row.recipe = pk})

(* Variant: the delete of the old links runs for every update.             *)
links_after_delete_always(table, pk, data) == delete_recipe_links(table, pk)

(* if 'ingredients' in validated_data: the delete of the old links.        *)
links_after_delete(table, pk, data) ==
    IF "ingredients" \in DOMAIN data
    THEN delete_recipe_links(table, pk)
    ELSE table

(* RecipeViewSet.update with RecipeWriteSerializer.update, for a request   *)
(* that names an existing recipe and passed the permission check (the 404  *)
(* of get_object is the guard pk \in RecipePks, here and below). The       *)
(* statements run in the order of the code: the validation, the delete of  *)
(* the old links, bulk_create.                                             *)
(* An IntegrityError of bulk_create ends the handler after the delete,     *)
(* which no transaction undoes.                                            *)
RecipeUpdate(pk, data) ==
    /\ pk \in RecipePks
    /\ IF ~is_valid(data)
       THEN /\ response' = ErrorResp("recipe_update", 400, "invalid")
            /\ UNCHANGED tables
       ELSE IF validate_data(data) # ""
       THEN /\ response' =
                 ErrorResp("recipe_update", 400, validate_data(data))
            /\ UNCHANGED tables
       ELSE LET deleted == links_after_delete(RecipeIngredient, pk, data)
                made ==
                    IF "ingredients" \in DOMAIN data
                    THEN create_recipe_ingredients(deleted, RecipePks, pk,
                                                   data.ingredients)
                    ELSE [ok |-> TRUE, table |-> deleted]
            IN  /\ RecipeIngredient' =
                     IF made.ok THEN made.table ELSE deleted
                /\ response' =
                     IF made.ok
                     THEN [Resp("recipe_update", 200) EXCEPT
                              !.pk = pk, !.data = data]
                     ELSE Resp("recipe_update", 500)
                /\ UNCHANGED <<Ingredient, Recipe, ShoppingCart, Favorite, seq>>

(* Variant: the foreign key to Recipe leaves the rows in place.            *)
on_delete_do_nothing(table, pk) == table

(* ForeignKey(Recipe, on_delete=models.CASCADE): the rows of a table that  *)
(* reference a deleted recipe are deleted with it.                         *)
on_delete_cascade(table, pk) ==
    Delete(table, {row \in DOMAIN table : row.recipe = pk})

(* RecipeViewSet.destroy (ModelViewSet): the rows that reference the       *)
(* recipe go with it.                                                      *)
RecipeDestroy(pk) ==
    /\ pk \in RecipePks
    /\ Recipe' = {r \in Recipe : r.id # pk}
    /\ RecipeIngredient' = on_delete_cascade(RecipeIngredient, pk)
    /\ ShoppingCart' = on_delete_cascade(ShoppingCart, pk)
    /\ Favorite' = on_delete_cascade(Favorite, pk)
    /\ response' = Resp("recipe_destroy", 204)
    /\ UNCHANGED <<Ingredient, seq>>

----------------------------------------------------------------------------
(* RecipeForm of the admin site.                                           *)

(* The cleaned data of a bound form: a value for some of the fields        *)
(* ingredient_amount_<id>, one field per Ingredient; a field left blank    *)
(* has no key here (None in the code).                                     *)
AmountFields == UNION {[S -> RequestAmounts] : S \in SUBSET IngredientPks}

(* IntegerField(min_value=1, required=False).                              *)
amount_fields_valid(cleaned) == \A i \in DOMAIN cleaned : cleaned[i] >= 1

(* RecipeIngredient.objects.create, once per row. The rows name distinct  *)
(* ingredients, so the order of the creates does not show in the table.    *)
RECURSIVE create_each(_, _)
create_each(table, rows) ==
    IF rows = {} THEN table
    ELSE LET row == CHOOSE r \in rows : TRUE
         IN  IF RowAccepted(table, RecipePks, row)
             THEN create_each(Insert(table, row), rows \ {row})
             ELSE table

(* RecipeForm.save for an instance that has a pk: the links are deleted    *)
(* and one link is created per field with a value above zero.              *)
RecipeFormSave(pk, cleaned) ==
    /\ pk \in RecipePks
    /\ IF ~amount_fields_valid(cleaned)
       THEN /\ response' = Resp("admin_recipe_change", 200)
            /\ UNCHANGED tables
       ELSE /\ RecipeIngredient' =
                 create_each(
                     delete_recipe_links(RecipeIngredient, pk),
                     {[recipe |-> pk, ingredient |-> i,
                       amount |-> cleaned[i]] :
                         i \in {j \in DOMAIN cleaned : cleaned[j] > 0}})
            /\ response' = Resp("admin_recipe_change", 302)
            /\ UNCHANGED <<Ingredient, Recipe, ShoppingCart, Favorite, seq>>

(* RecipeForm.save for a new instance: it has no pk when save runs and     *)
(* the form has no amount fields, so the recipe is stored without links.   *)
RecipeFormAdd ==
    /\ seq.Recipe <= MaxRecipes
    /\ Recipe' = Recipe \cup {[id |-> seq.Recipe]}
    /\ seq' = [seq EXCEPT !.Recipe = @ + 1]
    /\ response' = Resp("admin_recipe_add", 302)
    /\ UNCHANGED <<Ingredient, RecipeIngredient, ShoppingCart, Favorite>>

(* RecipeIngredientAdmin: the add form of the admin site for one link. The *)
(* form takes every amount the validators of the field let through.        *)
RecipeIngredientAdminAdd(recipe, ingredient, amount) ==
    /\ recipe \in RecipePks
    /\ ingredient \in IngredientPks
    /\ LET row == [recipe |-> recipe, ingredient |-> ingredient,
                   amount |-> amount]
       IN  IF amount_field_valid(amount)
              /\ RowAccepted(RecipeIngredient, RecipePks, row)
           THEN /\ RecipeIngredient' = Insert(RecipeIngredient, row)
                /\ response' = Resp("admin_link_add", 302)
                /\ UNCHANGED <<Ingredient, Recipe, ShoppingCart, Favorite, seq>>
           ELSE /\ response' = Resp("admin_link_add", 200)
                /\ UNCHANGED tables

----------------------------------------------------------------------------
(* RecipeViewSet._favorite_shopping_action for the ShoppingCart model and  *)
(* for the Favorite model. get_object_or_404 answers a request for a       *)
(* recipe that does not exist.                                             *)

(* Variant: the table without unique_shopping_cart.                        *)
CartRowAcceptedNoUnique(table, row) == row.recipe \in RecipePks

(* The constraints of the ShoppingCart table: the foreign key to Recipe    *)
(* and unique_shopping_cart.                                               *)
CartRowAccepted(table, row) ==
    /\ row.recipe \in RecipePks
    /\ ~\E old \in DOMAIN table :
          old.user = row.user /\ old.recipe = row.recipe

(* POST. 'user' is read-only in ShoppingCartSerializer, so is_valid checks *)
(* the recipe only and a repeated add ends in the IntegrityError of        *)
(* objects.create.                                                         *)
ShoppingCartPost(user, pk) ==
    IF pk \notin RecipePks
    THEN /\ response' = Resp("shopping_cart_post", 404)
         /\ UNCHANGED tables
    ELSE LET row == [user |-> user, recipe |-> pk]
         IN  IF CartRowAccepted(ShoppingCart, row)
             THEN /\ ShoppingCart' = Insert(ShoppingCart, row)
                  /\ response' = Resp("shopping_cart_post", 201)
                  /\ UNCHANGED <<Ingredient, Recipe, RecipeIngredient,
                                 Favorite, seq>>
             ELSE /\ response' = Resp("shopping_cart_post", 500)
                  /\ UNCHANGED tables

(* DELETE.                                                                 *)
(* Variant: the filter of the delete leaves out the user.                  *)
filter_user_recipe_any_user(table, user, pk) ==
    {row \in DOMAIN table : row.recipe = pk}

(* model.objects.filter(user=user, recipe=recipe)                          *)
filter_user_recipe(table, user, pk) ==
    {row \in DOMAIN table : row.user = user /\ row.recipe = pk}

ShoppingCartDelete(user, pk) ==
    IF pk \notin RecipePks
    THEN /\ response' = Resp("shopping_cart_delete", 404)
         /\ UNCHANGED tables
    ELSE LET mine == filter_user_recipe(ShoppingCart, user, pk)
             deleted_count == Count(ShoppingCart, mine)
         IN  IF deleted_count = 0
             THEN /\ response' =
                       ErrorResp("shopping_cart_delete", 400,
                                 "Recept ne najden v spiske pokupok")
                  /\ UNCHANGED tables
             ELSE /\ ShoppingCart' = Delete(ShoppingCart, mine)
                  /\ response' = Resp("shopping_cart_delete", 204)
                  /\ UNCHANGED <<Ingredient, Recipe, RecipeIngredient,
                                 Favorite, seq>>

(* The same handler for the Favorite model: FavoriteSerializer has 'user'  *)
(* read-only too, and unique_favorite is the constraint of the table.      *)
FavoritePost(user, pk) ==
    IF pk \notin RecipePks
    THEN /\ response' = Resp("favorite_post", 404)
         /\ UNCHANGED tables
    ELSE LET row == [user |-> user, recipe |-> pk]
         IN  IF CartRowAccepted(Favorite, row)
             THEN /\ Favorite' = Insert(Favorite, row)
                  /\ response' = Resp("favorite_post", 201)
                  /\ UNCHANGED <<Ingredient, Recipe, RecipeIngredient,
                                 ShoppingCart, seq>>
             ELSE /\ response' = Resp("favorite_post", 500)
                  /\ UNCHANGED tables

FavoriteDelete(user, pk) ==
    IF pk \notin RecipePks
    THEN /\ response' = Resp("favorite_delete", 404)
         /\ UNCHANGED tables
    ELSE LET mine == filter_user_recipe(Favorite, user, pk)
             deleted_count == Count(Favorite, mine)
         IN  IF deleted_count = 0
             THEN /\ response' =
                       ErrorResp("favorite_delete", 400,
                                 "Recept ne najden v izbrannom")
                  /\ UNCHANGED tables
             ELSE /\ Favorite' = Delete(Favorite, mine)
                  /\ response' = Resp("favorite_delete", 204)
                  /\ UNCHANGED <<Ingredient, Recipe, RecipeIngredient,
                                 ShoppingCart, seq>>

----------------------------------------------------------------------------
(* RecipeViewSet.download_shopping_cart.                                   *)

(* Variant: the emptiness check looks at the carts of all users.           *)
cart_exists_any(user) == \E row \in DOMAIN ShoppingCart : TRUE

(* user.shopping_cart.exists()                                             *)
cart_exists(user) == \E row \in DOMAIN ShoppingCart : row.user = user

(* Variant: the recipe ids of the caller's cart and of all favorites.      *)
recipe_ids_and_favorites(user) ==
    {row.recipe : row \in {r \in DOMAIN ShoppingCart : r.user = user}}
    \cup {row.recipe : row \in DOMAIN Favorite}

(* Variant: the recipe ids of the carts of all users.                      *)
recipe_ids_all_users(user) == {row.recipe : row \in DOMAIN ShoppingCart}

(* user.shopping_cart.values_list('recipe_id', flat=True)                  *)
recipe_ids(user) ==
    {row.recipe : row \in {r \in DOMAIN ShoppingCart : r.user = user}}

(* Variant: every row makes a group of its own.                            *)
AddToGroupNoMerge(groups, name, unit, amount) ==
    groups \cup {[ingredient__name |-> name,
                  ingredient__measurement_unit |-> unit,
                  total_amount |-> amount]}

(* Variant: the amount of a row replaces the total of its group.           *)
AddToGroupOverwrite(groups, name, unit, amount) ==
    {g \in groups : ~(/\ g.ingredient__name = name
                      /\ g.ingredient__measurement_unit = unit)}
    \cup {[ingredient__name |-> name,
           ingredient__measurement_unit |-> unit,
           total_amount |-> amount]}

(* One step of the aggregation: a link row, joined to its Ingredient, is   *)
(* added to the group of its (name, measurement_unit).                     *)
AddToGroup(groups, name, unit, amount) ==
    IF \E g \in groups : /\ g.ingredient__name = name
                         /\ g.ingredient__measurement_unit = unit
    THEN {IF /\ g.ingredient__name = name
             /\ g.ingredient__measurement_unit = unit
          THEN [g EXCEPT !.total_amount = @ + amount]
          ELSE g : g \in groups}
    ELSE groups \cup {[ingredient__name |-> name,
                       ingredient__measurement_unit |-> unit,
                       total_amount |-> amount]}

(* .values(name, unit).annotate(total_amount=Sum('amount')): GROUP BY over *)
(* the join of the rows with Ingredient.                                   *)
RECURSIVE annotate_sum(_, _, _)
annotate_sum(groups, table, rows) ==
    IF rows = {} THEN groups
    ELSE LET row == CHOOSE r \in rows : TRUE
             joined == {i \in Ingredient : i.id = row.ingredient}
         IN  IF joined = {} THEN annotate_sum(groups, table, rows \ {row})
             ELSE LET i == CHOOSE j \in joined : TRUE
                  IN  annotate_sum(
                          AddToGroup(groups, i.name, i.measurement_unit,
                                     row.amount * table[row]),
                          table, rows \ {row})

(* RecipeIngredient.objects.filter(recipe_id__in=recipe_ids)               *)
filter_recipe_id_in(table, ids) == {row \in DOMAIN table : row.recipe \in ids}

ingredients_query(user) ==
    annotate_sum({}, RecipeIngredient,
                 filter_recipe_id_in(RecipeIngredient, recipe_ids(user)))

(* The query has no ORDER BY: the database returns the groups in an order  *)
(* of its choice, so every order is a possible result.                     *)
ResultOrders(groups) ==
    {s \in [1..Cardinality(groups) -> groups] :
        \A a, b \in DOMAIN s : a # b => s[a] # s[b]}

Header == "Spisok pokupok:"

(* Variant: the unit in brackets after the name, the amount last.          *)
FormatLineUnitInBrackets(item) ==
    item.ingredient__name \o " (" \o item.ingredient__measurement_unit
        \o ") - " \o ToString(item.total_amount)

FormatLine(item) ==
    item.ingredient__name \o " - " \o ToString(item.total_amount) \o " "
        \o item.ingredient__measurement_unit

(* content: the header line, the blank line, one line per item.            *)
RenderContent(ingredients) ==
    <<Header, "">> \o [k \in DOMAIN ingredients |-> FormatLine(ingredients[k])]

(* HttpResponse(content): the lines of the text, a newline after each.     *)
RECURSIVE Body(_)
Body(content) ==
    IF content = <<>> THEN ""
    ELSE Head(content) \o "\n" \o Body(Tail(content))

(* Variant: the download empties the cart it has reported.                 *)
DownloadShoppingCartAndClear(user) ==
    /\ cart_exists(user)
    /\ response' =
         [Resp("download_shopping_cart", 200) EXCEPT !.user = user]
    /\ ShoppingCart' =
         Delete(ShoppingCart, {row \in DOMAIN ShoppingCart : row.user = user})
    /\ UNCHANGED <<Ingredient, Recipe, RecipeIngredient, Favorite, seq>>

DownloadShoppingCart(user) ==
    IF ~cart_exists(user)
    THEN /\ response' =
              [ErrorResp("download_shopping_cart", 400, "Spisok pokupok pust")
                  EXCEPT !.user = user]
         /\ UNCHANGED tables
    ELSE \E ingredients \in ResultOrders(ingredients_query(user)) :
            /\ response' =
                 [Resp("download_shopping_cart", 200) EXCEPT
                     !.user = user,
                     !.ingredients = ingredients,
                     !.content = RenderContent(ingredients),
                     !.body = Body(RenderContent(ingredients))]
            /\ UNCHANGED tables

----------------------------------------------------------------------------
(* The download and the update, statement by statement. Each statement is  *)
(* a query of its own that reads or writes the tables as they are when it  *)
(* runs; the code opens no transaction around them.                        *)

(* What download_shopping_cart returns when it runs without interruption:  *)
(* the error of the empty cart, or the groups of the report.               *)
OutcomeOf(user) ==
    IF cart_exists(user)
    THEN [empty |-> FALSE, groups |-> ingredients_query(user)]
    ELSE [empty |-> TRUE, groups |-> {}]

(* The first statement of the download: user.shopping_cart.exists(), and   *)
(* the 400 response when it is false. One download is in flight at a time. *)
DownloadCheck(user) ==
    /\ inflight.download.stage # "checked"
    /\ IF ~cart_exists(user)
       THEN /\ response' =
                 [ErrorResp("download_shopping_cart", 400,
                            "Spisok pokupok pust") EXCEPT !.user = user]
            /\ inflight' = [inflight EXCEPT !.download = Idle]
       ELSE /\ inflight' =
                 [inflight EXCEPT !.download =
                     [Idle EXCEPT !.stage = "checked", !.user = user,
                                  !.seen = {OutcomeOf(user)},
                                  !.cart = recipe_ids(user)]]
            /\ UNCHANGED response
    /\ UNCHANGED tables

(* The rest of the download: recipe_ids is a lazy queryset, so the loop    *)
(* over 'ingredients' runs one query with the cart as a subquery.          *)
DownloadQuery ==
    /\ inflight.download.stage = "checked"
    /\ \E ingredients \in
            ResultOrders(ingredients_query(inflight.download.user)) :
          response' =
              [Resp("download_shopping_cart", 200) EXCEPT
                  !.user = inflight.download.user,
                  !.ingredients = ingredients,
                  !.content = RenderContent(ingredients),
                  !.body = Body(RenderContent(ingredients))]
    /\ inflight' = [inflight EXCEPT !.download.stage = "done"]
    /\ UNCHANGED tables

(* The download in flight after a step of another request: the outcome of  *)
(* the new state joins 'seen'; a download that has ended is forgotten.     *)
observed_download(user) ==
    IF inflight.download.stage = "checked"
    THEN [inflight.download EXCEPT !.steps = @ + 1,
                                   !.seen = @ \cup {OutcomeOf(user)'}]
    ELSE Idle

(* At most MaxInterleaved steps of other requests fall into one download.  *)
Observed ==
    \E user \in 0..MaxUsers :
        /\ user = inflight.download.user
        /\ inflight.download.steps < MaxInterleaved
        /\ inflight' = [inflight EXCEPT !.download = observed_download(user)]

(* RecipeWriteSerializer.update up to the delete of the old links. One     *)
(* update is in flight at a time.                                          *)
UpdateDelete(pk, data) ==
    /\ pk \in RecipePks
    /\ inflight.update.stage = "idle"
    /\ \E user \in 0..MaxUsers :
        /\ user = inflight.download.user
        /\ IF ~is_valid(data)
           THEN /\ response' = ErrorResp("recipe_update", 400, "invalid")
                /\ UNCHANGED tables
                /\ inflight' =
                     [inflight EXCEPT !.download = observed_download(user)]
           ELSE IF validate_data(data) # ""
           THEN /\ response' =
                     ErrorResp("recipe_update", 400, validate_data(data))
                /\ UNCHANGED tables
                /\ inflight' =
                     [inflight EXCEPT !.download = observed_download(user)]
           ELSE /\ RecipeIngredient' =
                     delete_recipe_links(RecipeIngredient, pk)
                /\ UNCHANGED <<Ingredient, Recipe, ShoppingCart, Favorite,
                               seq, response>>
                /\ inflight' =
                     [download |-> observed_download(user),
                      update |->
                         [Idle EXCEPT
                             !.stage = "deleted", !.pk = pk, !.data = data,
                             !.before = [row \in {r \in DOMAIN RecipeIngredient :
                                                     r.recipe = pk}
                                          |-> RecipeIngredient[row]]]]

(* The rest of the update: _create_recipe_ingredients and the response.    *)
UpdateCreate ==
    /\ inflight.update.stage = "deleted"
    /\ LET pk == inflight.update.pk
           made == create_recipe_ingredients(RecipeIngredient, RecipePks, pk,
                                             inflight.update.data.ingredients)
       IN  /\ RecipeIngredient' = made.table
           /\ response' =
                IF made.ok
                THEN [Resp("recipe_update", 200) EXCEPT
                         !.pk = pk, !.data = inflight.update.data]
                ELSE Resp("recipe_update", 500)
    /\ UNCHANGED <<Ingredient, Recipe, ShoppingCart, Favorite, seq>>
    /\ \E user \in 0..MaxUsers :
        /\ user = inflight.download.user
        /\ inflight' = [download |-> observed_download(user), update |-> Idle]

----------------------------------------------------------------------------
Next ==
    \/ \E i \in CatalogItems :
          IngredientAdminAdd(i.name, i.measurement_unit) /\ UNCHANGED inflight
    \/ \E d \in RequestData : ~d.partial /\ RecipeCreate(d)
          /\ UNCHANGED inflight
    \/ \E pk \in RecipeIds, d \in RequestData : RecipeUpdate(pk, d)
          /\ UNCHANGED inflight
    \/ \E pk \in RecipeIds : RecipeDestroy(pk) /\ UNCHANGED inflight
    \/ \E pk \in RecipeIds, c \in AmountFields : RecipeFormSave(pk, c)
          /\ UNCHANGED inflight
    \/ RecipeFormAdd /\ UNCHANGED inflight
    \/ \E u \in Users, pk \in RecipeIds : ShoppingCartPost(u, pk)
          /\ UNCHANGED inflight
    \/ \E u \in Users, pk \in RecipeIds : ShoppingCartDelete(u, pk)
          /\ UNCHANGED inflight
    \/ \E u \in Users : DownloadShoppingCart(u) /\ UNCHANGED inflight

Spec == Init /\ [][Next]_vars

(* Every handler that writes the RecipeIngredient table, the admin form   *)
(* for single links included, without the cart and the download.           *)
NextLinks ==
    \/ \E i \in CatalogItems :
          IngredientAdminAdd(i.name, i.measurement_unit) /\ UNCHANGED inflight
    \/ \E d \in RequestData : ~d.partial /\ RecipeCreate(d)
          /\ UNCHANGED inflight
    \/ \E pk \in RecipeIds, d \in RequestData : RecipeUpdate(pk, d)
          /\ UNCHANGED inflight
    \/ \E pk \in RecipeIds : RecipeDestroy(pk) /\ UNCHANGED inflight
    \/ \E pk \in RecipeIds, c \in AmountFields : RecipeFormSave(pk, c)
          /\ UNCHANGED inflight
    \/ RecipeFormAdd /\ UNCHANGED inflight
    \/ \E pk \in RecipeIds, i \in IngredientIds, a \in RequestAmounts :
          RecipeIngredientAdminAdd(pk, i, a) /\ UNCHANGED inflight

SpecLinks == Init /\ [][NextLinks]_vars

(* The download in steps, among the handlers that write the cart and the   *)
(* recipes. The catalog is loaded before the requests begin and the recipe *)
(* requests carry one ingredient.                                          *)
InitLoaded ==
    /\ Ingredient =
          {[id |-> 1, name |-> "Flour", measurement_unit |-> "g"],
           [id |-> MaxIngredients, name |-> "Sugar", measurement_unit |-> "g"]}
    /\ Recipe = {}
    /\ RecipeIngredient = EmptyBag
    /\ ShoppingCart = EmptyBag
    /\ Favorite = EmptyBag
    /\ seq = [Ingredient |-> MaxIngredients + 1, Recipe |-> 1]
    /\ response = Resp("none", 0)
    /\ inflight = NoCalls

NextConc ==
    \/ \E d \in RequestData :
          /\ "ingredients" \in DOMAIN d /\ Len(d.ingredients) = 1
          /\ RecipeCreate(d) /\ Observed
    \/ \E pk \in RecipeIds, d \in RequestData :
          /\ "ingredients" \in DOMAIN d /\ Len(d.ingredients) = 1
          /\ RecipeUpdate(pk, d) /\ Observed
    \/ \E pk \in RecipeIds : RecipeDestroy(pk) /\ Observed
    \/ \E u \in Users, pk \in RecipeIds : ShoppingCartPost(u, pk) /\ Observed
    \/ \E u \in Users, pk \in RecipeIds :
          ShoppingCartDelete(u, pk) /\ Observed
    \/ \E u \in Users : DownloadCheck(u)
    \/ DownloadQuery

SpecConc == InitLoaded /\ [][NextConc]_vars

(* The cart, the favorites and the download of all users, over recipes    *)
(* with one ingredient.                                                    *)
NextCart ==
    \/ \E d \in RequestData :
          /\ "ingredients" \in DOMAIN d /\ Len(d.ingredients) = 1
          /\ RecipeCreate(d) /\ UNCHANGED inflight
    \/ \E pk \in RecipeIds : RecipeDestroy(pk) /\ UNCHANGED inflight
    \/ \E u \in Users, pk \in RecipeIds :
          ShoppingCartPost(u, pk) /\ UNCHANGED inflight
    \/ \E u \in Users, pk \in RecipeIds :
          ShoppingCartDelete(u, pk) /\ UNCHANGED inflight
    \/ \E u \in Users, pk \in RecipeIds :
          FavoritePost(u, pk) /\ UNCHANGED inflight
    \/ \E u \in Users, pk \in RecipeIds :
          FavoriteDelete(u, pk) /\ UNCHANGED inflight
    \/ \E u \in Users : DownloadShoppingCart(u) /\ UNCHANGED inflight

SpecCart == InitLoaded /\ [][NextCart]_vars

(* The handlers that write the catalog, and recipes that link to it.       *)
NextCatalog ==
    \/ \E i \in CatalogItems :
          IngredientAdminAdd(i.name, i.measurement_unit) /\ UNCHANGED inflight
    \/ \E data \in JsonFiles : LoadIngredients(data) /\ UNCHANGED inflight
    \/ \E data \in JsonFiles : ImportFromJson(data) /\ UNCHANGED inflight
    \/ \E d \in RequestData :
          /\ "ingredients" \in DOMAIN d
          /\ RecipeCreate(d) /\ UNCHANGED inflight
    \/ \E pk \in RecipeIds : RecipeDestroy(pk) /\ UNCHANGED inflight

SpecCatalog == Init /\ [][NextCatalog]_vars

(* The request that the response of the state answers.                     *)
Answered(pk, data) ==
    inflight' =
        [inflight EXCEPT !.update =
            [Idle EXCEPT !.stage = "answered", !.pk = pk, !.data = data]]

(* The create and the update of recipes with requests of every shape, and  *)
(* the delete of recipes. A create is logged with the pk 0.                *)
NextWrite ==
    \/ \E d \in WriteRequestData :
          /\ "ingredients" \in DOMAIN d
          /\ RecipeCreate(d) /\ Answered(0, d)
    \/ \E pk \in RecipeIds, d \in WriteRequestData :
          RecipeUpdate(pk, d) /\ Answered(pk, d)
    \/ \E pk \in RecipeIds : RecipeDestroy(pk) /\ UNCHANGED inflight

SpecWrite == InitLoaded /\ [][NextWrite]_vars

(* The update of a recipe in steps, among the handlers that write the      *)
(* cart and the recipes, and the download.                                 *)
NextEdit ==
    \/ \E d \in RequestData :
          /\ "ingredients" \in DOMAIN d /\ Len(d.ingredients) = 1
          /\ RecipeCreate(d) /\ UNCHANGED inflight
    \/ \E pk \in RecipeIds, d \in RequestData :
          /\ "ingredients" \in DOMAIN d /\ Len(d.ingredients) = 1
          /\ UpdateDelete(pk, d)
    \/ UpdateCreate
    \/ \E pk \in RecipeIds : RecipeDestroy(pk) /\ UNCHANGED inflight
    \/ \E u \in Users, pk \in RecipeIds :
          ShoppingCartPost(u, pk) /\ UNCHANGED inflight
    \/ \E u \in Users : DownloadShoppingCart(u) /\ UNCHANGED inflight

SpecEdit == InitLoaded /\ [][NextEdit]_vars

----------------------------------------------------------------------------
(* Properties.                                                             *)
(*                                                                         *)
(* Under Spec and SpecLinks a handler is one step and every handler sets   *)
(* response, so in a state whose response is that of a download the tables *)
(* are the ones the download has read.                                     *)

IsReport == response.op = "download_shopping_cart" /\ response.status = 200

(* The ingredient identity (name, measurement unit) of a catalog row.      *)
IdentityOf(pk) ==
    LET i == CHOOSE j \in Ingredient : j.id = pk
    IN  <<i.name, i.measurement_unit>>

CartRecipePks(user) ==
    {pk \in RecipePks : [user |-> user, recipe |-> pk] \in DOMAIN ShoppingCart}

(* The link rows reachable through the cart of a user.                     *)
CartLinks(user) ==
    {row \in DOMAIN RecipeIngredient : row.recipe \in CartRecipePks(user)}

CartIdentities(user) == {IdentityOf(row.ingredient) : row \in CartLinks(user)}

(* The amounts of a set of link rows, every stored copy counted.           *)
AmountOf(rows) ==
    SumOver([row \in DOMAIN RecipeIngredient |->
                row.amount * RecipeIngredient[row]], rows)

TotalOf(user, identity) ==
    AmountOf({row \in CartLinks(user) :
                 IdentityOf(row.ingredient) = identity})

RECURSIVE SumTotals(_)
SumTotals(items) ==
    IF items = <<>> THEN 0
    ELSE Head(items).total_amount + SumTotals(Tail(items))

(* C1: when the caller has a cart entry, the download returns a report     *)
(* that holds, for every ingredient identity (name, unit) linked to a      *)
(* recipe of the caller's cart, a line with the sum of the amounts of all  *)
(* those links.                                                            *)
C1_TotalPerIdentity ==
    ( /\ response.op = "download_shopping_cart"
      /\ CartRecipePks(response.user) # {} ) =>
        /\ response.status = 200
        /\ \A identity \in CartIdentities(response.user) :
              \E k \in DOMAIN response.ingredients :
                  /\ response.ingredients[k].ingredient__name = identity[1]
                  /\ response.ingredients[k].ingredient__measurement_unit
                        = identity[2]
                  /\ response.ingredients[k].total_amount
                        = TotalOf(response.user, identity)
                  /\ response.content[k + 2]
                        = identity[1] \o " - "
                            \o ToString(TotalOf(response.user, identity))
                            \o " " \o identity[2]

(* A report in which one identity sums the links of two cart recipes and   *)
(* a second identity has a line of its own.                                *)
C1_Witness ==
    /\ IsReport
    /\ Cardinality(CartIdentities(response.user)) >= 2
    /\ \E a, b \in CartLinks(response.user) :
          a.recipe # b.recipe /\ a.ingredient = b.ingredient

(* C2: a download by a caller without cart entries returns the 400 error   *)
(* with its message and no report body, not even the header.               *)
C2_EmptyCartError ==
    ( /\ response.op = "download_shopping_cart"
      /\ CartRecipePks(response.user) = {} ) =>
        /\ response.status = 400
        /\ response.error # ""
        /\ response.content = <<>>
        /\ response.ingredients = <<>>

(* The error was returned while another user did have a cart.              *)
C2_Witness ==
    /\ response.op = "download_shopping_cart"
    /\ response.status = 400
    /\ CartRecipePks(response.user) = {}
    /\ ShoppingCart # EmptyBag

(* C3: the report has as many ingredient lines (the lines after the header *)
(* and the blank line) as there are distinct (name, unit) pairs among the  *)
(* links of the caller's cart recipes.                                     *)
C3_LineCount ==
    IsReport =>
        Len(response.content) - 2 = Cardinality(CartIdentities(response.user))

(* A report with two lines made of more than two links.                    *)
C3_Witness ==
    /\ IsReport
    /\ Len(response.content) = 4
    /\ Cardinality(CartLinks(response.user)) > 2

(* C4: the total amounts of the report add up to the amounts of all links  *)
(* of the caller's cart recipes.                                           *)
C4_Conservation ==
    IsReport =>
        SumTotals(response.ingredients) = AmountOf(CartLinks(response.user))

(* A report over two cart recipes that share an ingredient with unlike     *)
(* amounts.                                                                *)
C4_Witness ==
    /\ IsReport
    /\ \E a, b \in CartLinks(response.user) :
          /\ a.recipe # b.recipe
          /\ a.ingredient = b.ingredient
          /\ a.amount # b.amount

SameNameOtherUnit(a, b) ==
    a.name = b.name /\ a.measurement_unit # b.measurement_unit

(* In a report two linked ingredients of one name and unlike units have    *)
(* an item each.                                                           *)
SeparateLines ==
    IsReport =>
        \A a, b \in CartLinks(response.user) :
            IdentityOf(a.ingredient)[1] = IdentityOf(b.ingredient)[1]
            /\ IdentityOf(a.ingredient)[2] # IdentityOf(b.ingredient)[2]
            => \E k, l \in DOMAIN response.ingredients :
                  /\ k # l
                  /\ response.ingredients[k].ingredient__measurement_unit
                        = IdentityOf(a.ingredient)[2]
                  /\ response.ingredients[l].ingredient__measurement_unit
                        = IdentityOf(b.ingredient)[2]

(* C5: the catalog admits an ingredient whose name it holds with another   *)
(* unit, and a report lists two such ingredients on separate lines.        *)
C5_UnitSensitivity ==
    [][/\ \A new \in CatalogItems :
            ( /\ IngredientAdminAdd(new.name, new.measurement_unit)
              /\ seq.Ingredient <= MaxIngredients
              /\ \E old \in Ingredient : SameNameOtherUnit(old, new)
              /\ ~\E old \in Ingredient :
                    /\ old.name = new.name
                    /\ old.measurement_unit = new.measurement_unit )
            => \E row \in Ingredient' :
                  /\ row.name = new.name
                  /\ row.measurement_unit = new.measurement_unit
       /\ SeparateLines'
      ]_vars

(* C6: a download that directly follows a download of the same caller      *)
(* returns the same body.                                                  *)
C6_Idempotence ==
    [][( /\ IsReport
         /\ IsReport'
         /\ response'.user = response.user )
       => response'.content = response.content]_vars

(* C7: the ShoppingCart table holds at most one entry per (user, recipe).  *)
C7_CartUnique ==
    \A user \in Users, pk \in RecipeIds :
        Count(ShoppingCart, {[user |-> user, recipe |-> pk]}) <= 1

(* A repeated add was refused and the first entry is in the table.         *)
C7_Witness ==
    /\ response.op = "shopping_cart_post"
    /\ response.status = 500
    /\ ShoppingCart # EmptyBag

(* C8: every stored link has an amount above zero.                         *)
C8_AmountPositive ==
    \A row \in DOMAIN RecipeIngredient : row.amount > 0

(* A request with an amount of zero was refused while links are stored.    *)
C8_Witness ==
    /\ response.op \in {"recipe_create", "recipe_update"}
    /\ response.error = "Kolichestvo dolzhno byt' bol'she nulya"
    /\ RecipeIngredient # EmptyBag

(* C9: there is at most one link per (recipe, ingredient).                 *)
C9_LinkUnique ==
    \A pk \in RecipeIds, i \in IngredientIds :
        Count(RecipeIngredient,
              {row \in DOMAIN RecipeIngredient :
                  row.recipe = pk /\ row.ingredient = i}) <= 1

(* A request that names an ingredient twice was refused while links are    *)
(* stored.                                                                 *)
C9_Witness ==
    /\ response.op \in {"recipe_create", "recipe_update"}
    /\ response.error = "Ingredienty ne dolzhny povtoryat'sya"
    /\ RecipeIngredient # EmptyBag

(* The links of a recipe.                                                  *)
LinksOf(table, pk) ==
    [row \in {r \in DOMAIN table : r.recipe = pk} |-> table[row]]

(* The links a list asks for: one row per item.                            *)
LinksAskedFor(pk, list) ==
    [row \in {[recipe |-> pk, ingredient |-> list[k].id,
               amount |-> list[k].amount] : k \in DOMAIN list} |-> 1]

(* C10: after a successful update that carries the list L the links of the *)
(* recipe are the items of L and the links of the other recipes are as     *)
(* before.                                                                 *)
C10_BatchReplace ==
    [][( /\ response'.op = "recipe_update"
         /\ response'.status = 200
         /\ "ingredients" \in DOMAIN response'.data )
       => /\ LinksOf(RecipeIngredient', response'.pk)
                = LinksAskedFor(response'.pk, response'.data.ingredients)
          /\ \A other \in RecipeIds \ {response'.pk} :
                LinksOf(RecipeIngredient', other)
                   = LinksOf(RecipeIngredient, other)
      ]_vars

(* An update has replaced the links of one recipe while another recipe     *)
(* has links too.                                                          *)
C10_Witness ==
    /\ response.op = "recipe_update"
    /\ response.status = 200
    /\ "ingredients" \in DOMAIN response.data
    /\ Len(response.data.ingredients) = 2
    /\ \E a, b \in DOMAIN RecipeIngredient : a.recipe # b.recipe

(* C11: every cart entry and every link references an existing recipe: the *)
(* rows that referenced a deleted recipe went with it.                     *)
C11_NoDanglingRows ==
    /\ \A row \in DOMAIN ShoppingCart : row.recipe \in RecipePks
    /\ \A row \in DOMAIN RecipeIngredient : row.recipe \in RecipePks

(* A recipe was deleted, the first of two, while the other recipe keeps    *)
(* its cart entries and its links.                                         *)
C11_Witness ==
    /\ response.op = "recipe_destroy"
    /\ seq.Recipe > MaxRecipes
    /\ RecipePks = {MaxRecipes}
    /\ ShoppingCart # EmptyBag
    /\ RecipeIngredient # EmptyBag

(* The groups of the report in the response.                               *)
ReportGroups ==
    {response.ingredients[k] : k \in DOMAIN response.ingredients}

(* The download in flight has ended with the response of this state.       *)
DownloadDone == inflight.download.stage = "done"

(* C12: a download whose query has run returns a report, also when a       *)
(* recipe of the caller's cart was deleted after the emptiness check: the  *)
(* report has one line per identity linked to the cart recipes that exist, *)
(* with the sum of their links, and nothing of a deleted recipe.           *)
C12_StaleReference ==
    DownloadDone =>
        /\ response.status = 200
        /\ Len(response.ingredients)
              = Cardinality(CartIdentities(response.user))
        /\ \A identity \in CartIdentities(response.user) :
              [ingredient__name |-> identity[1],
               ingredient__measurement_unit |-> identity[2],
               total_amount |-> TotalOf(response.user, identity)]
                  \in ReportGroups

(* A recipe that was in the caller's cart at the emptiness check is gone   *)
(* and the report holds the lines of a recipe that is left.                *)
C12_Witness ==
    /\ DownloadDone
    /\ \E pk \in inflight.download.cart : pk \notin RecipePks
    /\ response.status = 200
    /\ response.ingredients # <<>>

(* C13: the outcome of a download is the outcome of one of the states the  *)
(* tables were in during the call: the report of a download that has ended *)
(* is the report of one of the states seen since its emptiness check.      *)
C13_SingleInstant ==
    DownloadDone =>
        [empty |-> FALSE, groups |-> ReportGroups] \in inflight.download.seen

(* The groups of a report for a user when the recipe of the update in      *)
(* flight has the given links.                                             *)
GroupsWith(user, links) ==
    LET table == delete_recipe_links(RecipeIngredient, inflight.update.pk)
                     (+) links
    IN  annotate_sum({}, table, filter_recipe_id_in(table, recipe_ids(user)))

(* C14: a report made while the ingredient list of a cart recipe is being  *)
(* edited counts for that recipe its whole list before the edit or its     *)
(* whole list after the edit.                                              *)
C14_NoPartialReport ==
    ( /\ IsReport
      /\ inflight.update.stage = "deleted"
      /\ inflight.update.pk \in CartRecipePks(response.user) ) =>
        \/ ReportGroups = GroupsWith(response.user, inflight.update.before)
        \/ ReportGroups =
              GroupsWith(response.user,
                         LinksAskedFor(inflight.update.pk,
                                       inflight.update.data.ingredients))

(* C15: a step that ends in a response of the download, the error or the   *)
(* report, leaves the cart entries, the links, the catalog and the recipes *)
(* as they were.                                                           *)
C15_ReadOnly ==
    [][response'.op = "download_shopping_cart" =>
          /\ ShoppingCart' = ShoppingCart
          /\ RecipeIngredient' = RecipeIngredient
          /\ Ingredient' = Ingredient
          /\ Recipe' = Recipe]_vars

(* A report was returned and the cart entries of two recipes are in place. *)
C15_Witness ==
    /\ IsReport
    /\ CartRecipePks(response.user) = RecipeIds
    /\ RecipeIngredient # EmptyBag

RECURSIVE ExpectedLines(_)
ExpectedLines(items) ==
    IF items = <<>> THEN ""
    ELSE Head(items)[1] \o " - " \o ToString(Head(items)[3]) \o " "
             \o Head(items)[2] \o "\n" \o ExpectedLines(Tail(items))

(* C17: the body of a report is the header line, a blank line, and one     *)
(* line 'name - total unit' per ingredient identity of the caller's cart,  *)
(* each ended by a newline, in some order, and nothing else.               *)
C17_BodyFormat ==
    IsReport =>
        LET ids == CartIdentities(response.user)
        IN  \E order \in [1..Cardinality(ids) -> ids] :
               /\ \A a, b \in DOMAIN order : a # b => order[a] # order[b]
               /\ response.body =
                     "Spisok pokupok:\n\n" \o
                     ExpectedLines(
                        [k \in DOMAIN order |->
                            <<order[k][1], order[k][2],
                              TotalOf(response.user, order[k])>>])

(* A body of two ingredient lines, one of them with a total that is the    *)
(* sum of several links.                                                   *)
C17_Witness ==
    /\ IsReport
    /\ Len(response.ingredients) = 2
    /\ \E k \in DOMAIN response.ingredients :
          response.ingredients[k].total_amount > MaxAmount

(* C18: no two Ingredient rows have the same (name, measurement unit), so  *)
(* two links reference the same catalog row exactly when they have the     *)
(* same identity.                                                          *)
C18_CatalogUnique ==
    /\ \A a, b \in Ingredient :
          ( /\ a.name = b.name
            /\ a.measurement_unit = b.measurement_unit ) => a.id = b.id
    /\ \A a, b \in DOMAIN RecipeIngredient :
          a.ingredient = b.ingredient
             <=> IdentityOf(a.ingredient) = IdentityOf(b.ingredient)

(* The file was imported into a full catalog once more and the load of the *)
(* file was then refused, while recipes link to both catalog rows.         *)
C18_Witness ==
    /\ response.op = "load_ingredients"
    /\ response.status = 1
    /\ Cardinality(Ingredient) = MaxIngredients
    /\ \E a, b \in DOMAIN RecipeIngredient : a.ingredient # b.ingredient

(* The cart entries of a user.                                             *)
OwnCart(user) == {row \in DOMAIN ShoppingCart : row.user = user}

(* The outcome of a download as a function of the caller's cart entries,   *)
(* the links and the catalog, and of nothing else.                         *)
OutcomeFrom(own, links, catalog) ==
    LET rows == {row \in DOMAIN links : row.recipe \in {c.recipe : c \in own}}
        identity(pk) ==
            LET i == CHOOSE j \in catalog : j.id = pk
            IN  <<i.name, i.measurement_unit>>
        amounts == [row \in DOMAIN links |-> row.amount * links[row]]
    IN  IF own = {}
        THEN [status |-> 400, groups |-> {}]
        ELSE [status |-> 200,
              groups |->
                 {[ingredient__name |-> id[1],
                   ingredient__measurement_unit |-> id[2],
                   total_amount |->
                      SumOver(amounts,
                              {row \in rows :
                                  identity(row.ingredient) = id})] :
                     id \in {identity(row.ingredient) : row \in rows}}]

(* C16: the outcome of a download, the error or the groups of the report,  *)
(* is determined by the caller's own cart entries, the links and the       *)
(* catalog: the cart entries of other users and the favorites have no part *)
(* in it.                                                                  *)
C16_Isolation ==
    response.op = "download_shopping_cart" =>
        [status |-> response.status, groups |-> ReportGroups]
           = OutcomeFrom(OwnCart(response.user), RecipeIngredient, Ingredient)

(* A report for a caller while another user has a recipe in the cart that  *)
(* the caller has not, and favorites are stored.                           *)
C16_Witness ==
    /\ IsReport
    /\ \E other \in Users \ {response.user} :
          \E pk \in CartRecipePks(other) :
              /\ pk \notin CartRecipePks(response.user)
              /\ \E row \in DOMAIN RecipeIngredient : row.recipe = pk
    /\ Favorite # EmptyBag

(* C19: a POST for a recipe that is in the caller's cart ends in an error  *)
(* response and leaves the ShoppingCart table as it was.                   *)
C19_DuplicatePost ==
    [][\A user \in Users, pk \in RecipeIds :
          ( /\ ShoppingCartPost(user, pk)
            /\ [user |-> user, recipe |-> pk] \in DOMAIN ShoppingCart )
          => /\ response'.status >= 400
             /\ ShoppingCart' = ShoppingCart]_vars

(* A repeated add was refused while both users have cart entries.          *)
C19_Witness ==
    /\ response.op = "shopping_cart_post"
    /\ response.status = 500
    /\ \A user \in Users : CartRecipePks(user) # {}

(* C20: a DELETE for a recipe that exists and is not in the caller's cart  *)
(* returns the 400 error with its message and changes no cart entry; a     *)
(* DELETE for a recipe of the cart removes the caller's entry for that     *)
(* recipe and no other cart entry; neither changes a Favorite entry.       *)
C20_CartDelete ==
    [][\A user \in Users, pk \in RecipePks :
          ShoppingCartDelete(user, pk) =>
             /\ Favorite' = Favorite
             /\ IF [user |-> user, recipe |-> pk] \in DOMAIN ShoppingCart
                THEN /\ response'.status = 204
                     /\ ShoppingCart' =
                          [row \in DOMAIN ShoppingCart
                                      \ {[user |-> user, recipe |-> pk]}
                              |-> ShoppingCart[row]]
                ELSE /\ response'.status = 400
                     /\ response'.error = "Recept ne najden v spiske pokupok"
                     /\ ShoppingCart' = ShoppingCart]_vars

(* An entry was removed while the other user keeps the same recipe in the  *)
(* cart and the caller keeps it as a favorite.                             *)
C20_Witness ==
    /\ response.op = "shopping_cart_delete"
    /\ response.status = 204
    /\ \E user \in Users, pk \in RecipePks :
          /\ [user |-> user, recipe |-> pk] \notin DOMAIN ShoppingCart
          /\ [user |-> user, recipe |-> pk] \in DOMAIN Favorite
          /\ \E other \in Users \ {user} :
                [user |-> other, recipe |-> pk] \in DOMAIN ShoppingCart

(* The ingredient list the claim of C21 rules out.                         *)
BadIngredients(l) ==
    \/ l = <<>>
    \/ \E i, j \in DOMAIN l : i # j /\ l[i].id = l[j].id
    \/ \E k \in DOMAIN l : l[k].amount <= 0

(* The tag list the claim of C21 rules out.                                *)
BadTags(t) ==
    \/ t = <<>>
    \/ \E i, j \in DOMAIN t : i # j /\ t[i] = t[j]

BadRequest(data) ==
    \/ "ingredients" \in DOMAIN data /\ BadIngredients(data.ingredients)
    \/ "tags" \in DOMAIN data /\ BadTags(data.tags)

(* C21: a recipe create or update whose ingredient list is empty, names an *)
(* ingredient twice or holds an amount <= 0, or whose tag list is empty or *)
(* repeats a tag, is answered 400 and writes nothing: no Recipe and no     *)
(* link is stored by the create, no link is deleted by the update.         *)
C21_RejectedBeforeWrite ==
    [][( /\ response'.op \in {"recipe_create", "recipe_update"}
         /\ inflight'.update.stage = "answered"
         /\ BadRequest(inflight'.update.data) )
       => /\ response'.status = 400
          /\ Recipe' = Recipe
          /\ RecipeIngredient' = RecipeIngredient
          /\ seq' = seq]_vars

(* An update with a good ingredient list and a repeated tag was refused,   *)
(* and the recipe it names has its links.                                  *)
C21_Witness ==
    /\ response.op = "recipe_update"
    /\ response.status = 400
    /\ response.error = "Tegi dolzhny byt' unikal'nymi"
    /\ inflight.update.stage = "answered"
    /\ "ingredients" \in DOMAIN inflight.update.data
    /\ ~BadIngredients(inflight.update.data.ingredients)
    /\ \E row \in DOMAIN RecipeIngredient :
          row.recipe = inflight.update.pk

(* C22: an update that succeeds with data without the key 'ingredients'    *)
(* leaves the RecipeIngredient table as it was, and with it what the       *)
(* download of every user returns.                                         *)
C22_PartialUpdateKeepsLinks ==
    [][( /\ response'.op = "recipe_update"
         /\ response'.status = 200
         /\ "ingredients" \notin DOMAIN response'.data )
       => /\ RecipeIngredient' = RecipeIngredient
          /\ \A user \in Users : OutcomeOf(user)' = OutcomeOf(user)]_vars

(* An update without the key 'ingredients' succeeded for a recipe that has *)
(* links and is in the cart of a user.                                     *)
C22_Witness ==
    /\ response.op = "recipe_update"
    /\ response.status = 200
    /\ "ingredients" \notin DOMAIN response.data
    /\ \E row \in DOMAIN RecipeIngredient : row.recipe = response.pk
    /\ \E user \in Users :
          [user |-> user, recipe |-> response.pk] \in DOMAIN ShoppingCart

(* IngredientAdmin: the delete of one catalog row on the admin site. The   *)
(* links that reference the row go with it (on_delete=CASCADE).            *)
IngredientAdminDelete(id) ==
    /\ id \in IngredientPks
    /\ Ingredient' = {i \in Ingredient : i.id # id}
    /\ RecipeIngredient' =
          Delete(RecipeIngredient,
                 {row \in DOMAIN RecipeIngredient : row.ingredient = id})
    /\ response' = Resp("admin_ingredient_delete", 302)
    /\ UNCHANGED <<Recipe, ShoppingCart, Favorite, seq>>

(* The download in steps, among cart removals, recipe deletions,           *)
(* ingredient deletions and edits of ingredient lists. Every recipe is     *)
(* written by the API, with one ingredient.                                *)
NextRace ==
    \/ \E d \in RequestData :
          /\ "ingredients" \in DOMAIN d /\ Len(d.ingredients) = 1
          /\ RecipeCreate(d) /\ Observed
    \/ \E pk \in RecipeIds, d \in RequestData :
          /\ "ingredients" \in DOMAIN d /\ Len(d.ingredients) = 1
          /\ RecipeUpdate(pk, d) /\ Observed
    \/ \E pk \in RecipeIds : RecipeDestroy(pk) /\ Observed
    \/ \E id \in IngredientIds : IngredientAdminDelete(id) /\ Observed
    \/ \E u \in Users, pk \in RecipeIds : ShoppingCartPost(u, pk) /\ Observed
    \/ \E u \in Users, pk \in RecipeIds :
          ShoppingCartDelete(u, pk) /\ Observed
    \/ \E u \in Users : DownloadCheck(u)
    \/ DownloadQuery

SpecRace == InitLoaded /\ [][NextRace]_vars

(* C23: every 200 response of download_shopping_cart lists at least one    *)
(* ingredient line, under every interleaving of its two reads with cart    *)
(* removals, recipe deletions, ingredient deletions and edits.             *)
C23_NeverHeaderOnly == IsReport => response.ingredients # <<>>
====
